---- MODULE Spec2Model ----
(***************************************************************************)
(* Model of pkg-manager/get-context/src/index.ts: the context builders     *)
(* getContext and getContextForSingleImporter, the modules validator       *)
(* validateModules and the purge of a modules directory.                   *)
(*                                                                         *)
(* A path is a sequence of segments; a segment (a file name) is a sequence *)
(* of tokens whose first token is "." for a hidden entry.                  *)
(***************************************************************************)
EXTENDS Naturals, Sequences, FiniteSets, TLC

VARIABLES
  opts,              \* the options of the call (GetContextOptions), fixed per behaviour
  builder,           \* "multi": getContext, "single": getContextForSingleImporter
  modulesYaml,       \* content of the descriptor file of the previous install
  incompatible,      \* modules directories for which checkCompatibility throws
  fs,                \* directory -> [exists, entries]
  storeDirExists,    \* whether opts.storeDir has been created
  pc,                \* position of the builder and of validateModules
  alreadyPurged,     \* parameter of getContextForSingleImporter
  importersContext,  \* last result of readProjectsContext
  purged,            \* local variable of validateModules
  retPurged,         \* { purged } returned by validateModules
  job,               \* purgeModulesDirsOfImporter invocations: target -> state
  error,             \* code of the error the call rejected with, or "none"
  ctx,               \* the returned context
  calls,             \* number of builder calls started in this behaviour
  nReads,            \* readProjectsContext calls of the current call
  nValidations,      \* validateModules calls of the current call
  nPurges,           \* directory -> purgeModulesDirsOfImporter calls of the current call
  fs0                \* fs when the current call started

vars == <<opts, builder, modulesYaml, incompatible, fs, storeDirExists, pc,
          alreadyPurged, importersContext, purged, retPurged, job, error, ctx,
          calls, nReads, nValidations, nPurges, fs0>>

(***************************************************************************)
(* Bounds                                                                  *)
(***************************************************************************)
\* builder calls made one after the other against the same directories
MaxCalls == 2
\* projects for which checkCompatibility throws
MaxIncompatible == 1

(***************************************************************************)
(* Names and paths                                                         *)
(***************************************************************************)
BIN == <<".", "bin">>
MODULES_YAML == <<".", "modules.yaml">>
PNPM == <<".", "pnpm">>
NPMRC == <<".", "npmrc">>
PKG == <<"pkg">>
NODE_MODULES == <<"node_modules">>
\* a modules directory name configured with opts.modulesDir
CUSTOM_MODULES == <<"custom_modules">>

\* the names a modules directory may hold, in the order readdir lists them
EntryOrder == <<BIN, MODULES_YAML, NPMRC, PNPM, PKG>>
EntryNames == {EntryOrder[i] : i \in 1..Len(EntryOrder)}

\* item.startsWith('.')
StartsWithDot(item) == Head(item) = "."

\* path.join(dir, rel) for a relative rel
Join(dir, rel) == dir \o rel

\* pathAbsolute(p, cwd)
PathAbsolute(p, cwd) == IF p.abs THEN p.segs ELSE Join(cwd, p.segs)

\* path.relative(dir1, dir2) === ''
dirsAreEqual(dir1, dir2) == dir1 = dir2

LockfileDir == << <<"ws">> >>
ProjectA == Join(LockfileDir, << <<"a">> >>)
ProjectB == Join(LockfileDir, << <<"b">> >>)
RootDirs == {LockfileDir, ProjectA, ProjectB}

\* a value that may be undefined
Undef == [def |-> FALSE, val |-> <<>>]
Some(v) == [def |-> TRUE, val |-> v]
\* a ?? b
Coalesce(a, b) == IF a.def THEN a ELSE b
\* a || undefined, for an array or undefined (an array is truthy)
OrUndefined(a) == IF a.def THEN a ELSE Undef
\* ramda equals
equals(a, b) == a = b

(***************************************************************************)
(* Inputs                                                                  *)
(***************************************************************************)
\* DEPENDENCIES_FIELDS of @pnpm/types
DEPENDENCIES_FIELDS == {"optionalDependencies", "dependencies", "devDependencies"}
IncludeAll == [f \in DEPENDENCIES_FIELDS |-> TRUE]
IncludeProd == [f \in DEPENDENCIES_FIELDS |-> f = "dependencies"]

Star == Some(<<"*">>)
Empty == Some(<<>>)

\* opts.allProjects of getContext, as the list of the projects' rootDir
ProjectLists == {<<LockfileDir>>, <<LockfileDir, ProjectA>>, <<ProjectA, ProjectB>>,
                 <<LockfileDir, ProjectA, ProjectB>>}
\* opts.dir of getContextForSingleImporter
SingleDirs == {LockfileDir, ProjectA}

\* opts.virtualStoreDir: unset, or an absolute path inside project a
VirtualStoreDirs == {Undef, Some([abs |-> TRUE, segs |-> Join(ProjectA, <<NODE_MODULES, PNPM>>)])}

Options ==
  [ allProjects : ProjectLists \cup {<<d>> : d \in SingleDirs},
    lockfileDir : {LockfileDir},
    modulesDir : {Undef},
    virtualStoreDir : VirtualStoreDirs,
    global : {Undef},
    forceNewModules : BOOLEAN,
    forceHoistPattern : BOOLEAN,
    forcePublicHoistPattern : BOOLEAN,
    hoistPattern : {Undef, Empty, Star},
    publicHoistPattern : {Undef, Star},
    include : {Undef, Some(IncludeAll), Some(IncludeProd)},
    registries : {"r1"},
    extraBinPaths : {<< >>},
    extendNodePath : {Undef},
    nodeLinker : {"isolated"} ]

\* opts.virtualStoreDir, with a relative path too
VirtualStoreDirsWide ==
  VirtualStoreDirs \cup {Some([abs |-> FALSE, segs |-> << <<"store">> >>])}

\* a directory of executables the caller supplies in opts.extraBinPaths
ToolsBin == Join(LockfileDir, << <<"tools">>, <<"bin">> >>)

\* the options of the calls that do not authorize a purge: every setting the
\* builders turn into paths, and opts.global
ConfigOptions ==
  [ allProjects : {<<LockfileDir>>, <<ProjectA>>, <<LockfileDir, ProjectA>>},
    lockfileDir : {LockfileDir},
    modulesDir : {Undef, Some(CUSTOM_MODULES)},
    virtualStoreDir : VirtualStoreDirsWide,
    global : {Undef, Some(TRUE)},
    forceNewModules : {FALSE},
    forceHoistPattern : BOOLEAN,
    forcePublicHoistPattern : {FALSE},
    hoistPattern : {Undef, Empty, Star},
    publicHoistPattern : {Star},
    include : {Undef, Some(IncludeProd)},
    registries : {"r1"},
    extraBinPaths : {<< >>, <<ToolsBin>>},
    extendNodePath : {Undef, Some(TRUE), Some(FALSE)},
    nodeLinker : {"isolated", "hoisted", "pnp"} ]

\* the descriptors a previous install may have written
Descriptors ==
  [ present : {TRUE},
    hoistPattern : {Star},
    publicHoistPattern : {Star},
    included : {Some(IncludeAll)},
    registries : {Undef, Some("r1"), Some("r2")} ]

\* modules == null
NullModules ==
  [ present |-> FALSE, hoistPattern |-> Undef, publicHoistPattern |-> Undef,
    included |-> Undef, registries |-> Undef ]

(***************************************************************************)
(* The file system                                                         *)
(***************************************************************************)
ModulesDirName(o) == Coalesce(o.modulesDir, Some(NODE_MODULES)).val

\* lockfileDir/modulesDir, where the descriptor of the previous install is
RootModulesDirOf(o) == Join(o.lockfileDir, <<ModulesDirName(o)>>)

\* the modules directories of the model
Dirs == {Join(r, <<m>>) : r \in RootDirs, m \in {NODE_MODULES, CUSTOM_MODULES}}

AbsentDir == [exists |-> FALSE, entries |-> {}]

\* fs.readdir(dir): the entries of dir in listing order
RECURSIVE ListFrom(_, _)
ListFrom(i, entries) ==
  IF i > Len(EntryOrder) THEN <<>>
  ELSE (IF EntryOrder[i] \in entries THEN <<EntryOrder[i]>> ELSE <<>>)
       \o ListFrom(i + 1, entries)
Readdir(f, dir) == ListFrom(1, f[dir].entries)

\* mutant: the directory is removed with its entries
M_RimrafDirectory(f, dir, item) == [f EXCEPT ![dir] = AbsentDir]

\* rimraf(path.join(dir, item))
Rimraf(f, dir, item) ==
  [f EXCEPT ![dir] = [exists |-> f[dir].exists, entries |-> f[dir].entries \ {item}]]

(***************************************************************************)
(* readProjectsContext and checkCompatibility                              *)
(***************************************************************************)
DotId == << <<".">> >>

\* getLockfileImporterId(lockfileDir, rootDir)
ImporterId(lockfileDir, rootDir) ==
  IF rootDir = lockfileDir THEN DotId
  ELSE SubSeq(rootDir, Len(lockfileDir) + 1, Len(rootDir))

\* readModulesManifest(rootModulesDir)
ReadModulesManifest(f, yaml, rootModulesDir) ==
  IF f[rootModulesDir].exists /\ MODULES_YAML \in f[rootModulesDir].entries
  THEN yaml ELSE NullModules

\* readProjectsContext(projects, { lockfileDir, modulesDir })
ReadProjectsContext(f, yaml, o) ==
  LET rootModulesDir == RootModulesDirOf(o)
      modules == ReadModulesManifest(f, yaml, rootModulesDir)
  IN [ modules |-> modules,
       currentHoistPattern |-> modules.hoistPattern,
       currentPublicHoistPattern |-> modules.publicHoistPattern,
       include |-> Coalesce(modules.included, Some(IncludeAll)).val,
       registries |-> modules.registries,
       rootModulesDir |-> rootModulesDir,
       projects |-> [i \in 1..Len(o.allProjects) |->
                      [ rootDir |-> o.allProjects[i],
                        id |-> ImporterId(o.lockfileDir, o.allProjects[i]),
                        modulesDir |-> Join(o.allProjects[i], <<ModulesDirName(o)>>) ]] ]

\* checkCompatibility(modules, { modulesDir, storeDir, virtualStoreDir }) throws
CheckCompatibilityThrows(project) == project.modulesDir \in incompatible

(***************************************************************************)
(* Values computed by the builders and the validator                       *)
(***************************************************************************)
\* virtualStoreDir of getContext (line 107) and getContextForSingleImporter (line 434)
VirtualStoreDir(b, o) ==
  IF b = "multi"
  THEN PathAbsolute(Coalesce(o.virtualStoreDir,
         Some([abs |-> FALSE, segs |-> Join(<<ModulesDirName(o)>>, <<PNPM>>)])).val,
         o.lockfileDir)
  ELSE PathAbsolute(Coalesce(o.virtualStoreDir,
         Some([abs |-> FALSE, segs |-> <<NODE_MODULES, PNPM>>])).val,
         o.lockfileDir)

\* projects.find(({ id }) => id === '.')
HasRootProject(projects) == \E i \in 1..Len(projects) : projects[i].id = DotId
RootProject(projects) ==
  projects[CHOOSE i \in 1..Len(projects) :
             projects[i].id = DotId /\ \A k \in 1..(i - 1) : projects[k].id # DotId]

\* mutant: the public hoist pattern is never found different
M_PublicHoistNeverDiffers(o, modules) == FALSE

\* the condition of the if of lines 229-233
PublicHoistPatternDiffers(o, modules) ==
  o.forcePublicHoistPattern
  /\ ~equals(modules.publicHoistPattern, OrUndefined(o.publicHoistPattern))

\* the condition of the if of line 248
HoistPatternDiffers(o, ic) ==
  ~equals(ic.currentHoistPattern, OrUndefined(o.hoistPattern))

\* mutant: the included dependencies are compared for the lockfile root too
M_IncludedDepsConflictAtRoot(o, modules, project) ==
  /\ o.include.def
  /\ modules.included.def
  /\ \E depsField \in DEPENDENCIES_FIELDS :
       o.include.val[depsField] # modules.included.val[depsField]

\* lines 268-277: the included dependencies conflict of one project
IncludedDepsConflict(o, modules, project) ==
  /\ o.lockfileDir # project.rootDir
  /\ o.include.def
  /\ modules.included.def
  /\ \E depsField \in DEPENDENCIES_FIELDS :
       o.include.val[depsField] # modules.included.val[depsField]

\* lines 262-277: the error the try block of one project's task throws, or "none"
TaskError(o, modules, project) ==
  IF CheckCompatibilityThrows(project) THEN "COMPAT"
  ELSE IF IncludedDepsConflict(o, modules, project) THEN "INCLUDED_DEPS_CONFLICT"
  ELSE "none"

\* mutant: the registries are never found different
M_RegistriesNeverMismatch(o, modules) == FALSE

\* the condition of the if of line 284
RegistriesMismatch(o, modules) ==
  modules.registries.def /\ ~equals(o.registries, modules.registries.val)

\* line 289: the command the message of REGISTRIES_MISMATCH tells to run;
\* validateModules is given opts.global by getContext only (line 126)
InstallCommand(b, o) ==
  IF b = "multi" /\ Coalesce(o.global, Some(FALSE)).val
  THEN "pnpm install -g" ELSE "pnpm install"

(***************************************************************************)
(* Purge: purgeModulesDirsOfImporter and removeContentsOfDir               *)
(***************************************************************************)
\* mutant: the virtual store is kept like any other hidden entry
M_IsKeptWithVirtualStore(dir, item, virtualStoreDir) ==
  /\ StartsWithDot(item)
  /\ item # BIN
  /\ item # MODULES_YAML

\* lines 325-330: the entry is kept
IsKept(dir, item, virtualStoreDir) ==
  /\ StartsWithDot(item)
  /\ item # BIN
  /\ item # MODULES_YAML
  /\ ~dirsAreEqual(Join(dir, <<item>>), virtualStoreDir)

\* lines 323-332: the loop skips the kept entries until the next rimraf
RECURSIVE SkipKept(_, _, _)
SkipKept(dir, items, virtualStoreDir) ==
  IF items = <<>> THEN <<>>
  ELSE IF IsKept(dir, Head(items), virtualStoreDir)
       THEN SkipKept(dir, Tail(items), virtualStoreDir)
       ELSE items

NoJob == [st |-> "none", items |-> <<>>]
StartedJob == [st |-> "readdir", items |-> <<>>]

\* mutant: no error of removeContentsOfDir is swallowed
M_SwallowsNothing(code) == FALSE

\* mutant: every error of removeContentsOfDir is swallowed
M_SwallowsEveryError(code) == TRUE

\* line 317: the error is swallowed
IsSwallowed(code) == code = "ENOENT"

\* purgeModulesDirsOfImporter is called for each directory of dirs
StartPurges(dirs) ==
  /\ job' = [d \in Dirs |-> IF d \in dirs THEN StartedJob ELSE job[d]]
  /\ nPurges' = [d \in Dirs |-> IF d \in dirs THEN nPurges[d] + 1 ELSE nPurges[d]]

\* the purge of dir settles: fulfilled, or rejected with a code that is not swallowed;
\* line 281: a fulfilled purge of a project's task sets purged
SettleJob(dir, code) ==
  /\ job' = [job EXCEPT ![dir] =
               [st |-> IF code = "none" \/ IsSwallowed(code) THEN "ok" ELSE "err",
                items |-> <<>>]]
  /\ purged' = IF pc = "await_tasks" /\ (code = "none" \/ IsSwallowed(code))
               THEN TRUE ELSE purged

\* the loop of removeContentsOfDir reaches its next rimraf, or its end
ContinueLoop(dir, items) ==
  LET rest == SkipKept(dir, items, VirtualStoreDir(builder, opts))
  IN IF rest = <<>> THEN SettleJob(dir, "none")
     ELSE /\ job' = [job EXCEPT ![dir] = [st |-> "rimraf", items |-> rest]]
          /\ UNCHANGED purged

\* line 322: fs.readdir(dir) settles
JobReaddir(dir) ==
  /\ job[dir].st = "readdir"
  /\ \/ /\ ~fs[dir].exists
        /\ SettleJob(dir, "ENOENT")
     \/ /\ fs[dir].exists
        /\ ContinueLoop(dir, Readdir(fs, dir))
     \/ /\ fs[dir].exists
        /\ SettleJob(dir, "EIO")
  /\ UNCHANGED <<opts, builder, modulesYaml, incompatible, fs, storeDirExists, pc,
                 alreadyPurged, importersContext, retPurged, error, ctx, calls,
                 nReads, nValidations, nPurges, fs0>>

\* line 334: rimraf(path.join(dir, item)) settles
JobRimraf(dir) ==
  /\ job[dir].st = "rimraf"
  /\ \/ /\ fs' = Rimraf(fs, dir, Head(job[dir].items))
        /\ ContinueLoop(dir, Tail(job[dir].items))
     \/ /\ SettleJob(dir, "EIO")
        /\ UNCHANGED fs
  /\ UNCHANGED <<opts, builder, modulesYaml, incompatible, storeDirExists, pc,
                 alreadyPurged, importersContext, retPurged, error, ctx, calls,
                 nReads, nValidations, nPurges, fs0>>

InFlight(dir) == job[dir].st \in {"readdir", "rimraf"}
\* mutant: the awaited purges are taken as done as soon as none has rejected
M_NoneRejected == \A d \in Dirs : job[d].st # "err"

AllFulfilled == \A d \in Dirs : job[d].st \in {"none", "ok"}
ClearJobs == job' = [d \in Dirs |-> NoJob]

\* mutant: the rejection of an awaited purge is caught and validation reports a purge
M_PurgeRejectionCaught ==
  /\ pc \in {"await_publicHoist", "await_hoist", "await_tasks", "await_registries",
             "await_fallback"}
  /\ \E d \in Dirs : job[d].st = "err"
  /\ pc' = "validated"
  /\ retPurged' = TRUE
  /\ UNCHANGED <<opts, builder, modulesYaml, incompatible, fs, storeDirExists,
                 alreadyPurged, importersContext, purged, error, job, ctx, calls,
                 nReads, nValidations, nPurges, fs0>>

\* an awaited purge rejects: validateModules and the builder reject with its error
PurgeRejected ==
  /\ pc \in {"await_publicHoist", "await_hoist", "await_tasks", "await_registries",
             "await_fallback"}
  /\ \E d \in Dirs : job[d].st = "err"
  /\ pc' = "failed"
  /\ error' = "EIO"
  /\ UNCHANGED <<opts, builder, modulesYaml, incompatible, fs, storeDirExists,
                 alreadyPurged, importersContext, purged, retPurged, job, ctx, calls,
                 nReads, nValidations, nPurges, fs0>>

(***************************************************************************)
(* validateModules                                                         *)
(***************************************************************************)
Throw(code) == pc' = "failed" /\ error' = code

\* line 234: the public hoist pattern difference is repaired by a purge
PublicHoistRepaired(o, projects) == o.forceNewModules /\ HasRootProject(projects)

\* mutant: the hoist pattern is never checked
M_HoistNeverChecked(o, projects) == FALSE

\* line 245: the hoist pattern is checked
HoistChecked(o, projects) == o.forceHoistPattern /\ HasRootProject(projects)

\* mutant: the catch of the hoist pattern check purges whatever the force flag
M_HoistCatchNeverRethrows(o) == FALSE

\* line 256: the catch of the hoist pattern check rethrows
HoistCatchRethrows(o) == ~o.forceNewModules

\* mutant: the catch of a project's task purges whatever the force flag
M_TaskCatchNeverRethrows(o) == FALSE

\* line 279: the catch of a project's task rethrows
TaskCatchRethrows(o) == ~o.forceNewModules

\* line 285: the registries mismatch is repaired by a purge
RegistriesRepaired(o) == o.forceNewModules

\* mutant: the fallback purge does not look for a root project
M_FallbackWheneverPurged(p, projects) == p

\* line 291: the lockfile root's modules directory is purged too
FallbackNeeded(p, projects) == p /\ ~HasRootProject(projects)

\* lines 228-243
ValidatePublicHoist ==
  /\ pc = "publicHoist"
  /\ IF PublicHoistPatternDiffers(opts, importersContext.modules)
     THEN IF PublicHoistRepaired(opts, importersContext.projects)
          THEN /\ StartPurges({RootProject(importersContext.projects).modulesDir})
               /\ pc' = "await_publicHoist"
               /\ UNCHANGED <<error, purged>>
          ELSE /\ Throw("PUBLIC_HOIST_PATTERN_DIFF")
               /\ UNCHANGED <<job, nPurges, purged>>
     ELSE /\ pc' = "hoist"
          /\ purged' = FALSE
          /\ UNCHANGED <<job, nPurges, error>>
  /\ UNCHANGED <<opts, builder, modulesYaml, incompatible, fs, storeDirExists,
                 alreadyPurged, importersContext, retPurged, ctx, calls, nReads,
                 nValidations, fs0>>

\* lines 235-236: the purge of the root project is done, return { purged: true }
PublicHoistPurged ==
  /\ pc = "await_publicHoist"
  /\ AllFulfilled
  /\ ClearJobs
  /\ retPurged' = TRUE
  /\ pc' = "validated"
  /\ UNCHANGED <<opts, builder, modulesYaml, incompatible, fs, storeDirExists,
                 alreadyPurged, importersContext, purged, error, ctx, calls, nReads,
                 nValidations, nPurges, fs0>>

\* lines 245-257
ValidateHoist ==
  /\ pc = "hoist"
  /\ IF HoistChecked(opts, importersContext.projects)
        /\ HoistPatternDiffers(opts, importersContext)
     THEN IF HoistCatchRethrows(opts)
          THEN /\ Throw("HOIST_PATTERN_DIFF")
               /\ UNCHANGED <<job, nPurges>>
          ELSE /\ StartPurges({RootProject(importersContext.projects).modulesDir})
               /\ pc' = "await_hoist"
               /\ UNCHANGED error
     ELSE /\ pc' = "tasks"
          /\ UNCHANGED <<job, nPurges, error>>
  /\ UNCHANGED <<opts, builder, modulesYaml, incompatible, fs, storeDirExists,
                 alreadyPurged, importersContext, purged, retPurged, ctx, calls,
                 nReads, nValidations, fs0>>

\* mutant: the purge of the root project is started and not awaited
M_HoistPurgeNotAwaited ==
  /\ pc = "await_hoist"
  /\ purged' = TRUE
  /\ pc' = "tasks"
  /\ UNCHANGED <<opts, builder, modulesYaml, incompatible, fs, storeDirExists,
                 alreadyPurged, importersContext, retPurged, job, error, ctx, calls,
                 nReads, nValidations, nPurges, fs0>>

\* lines 257-258: the purge of the root project is done
HoistPurged ==
  /\ pc = "await_hoist"
  /\ AllFulfilled
  /\ ClearJobs
  /\ purged' = TRUE
  /\ pc' = "tasks"
  /\ UNCHANGED <<opts, builder, modulesYaml, incompatible, fs, storeDirExists,
                 alreadyPurged, importersContext, retPurged, error, ctx, calls, nReads,
                 nValidations, nPurges, fs0>>

\* the projects whose task catches an error
FailingProjects(o, ic) ==
  {i \in 1..Len(ic.projects) : TaskError(o, ic.modules, ic.projects[i]) # "none"}

\* mutant: one failing project makes the tasks purge every project
M_TaskPurgeEveryProject(o, ic) ==
  IF FailingProjects(o, ic) = {} THEN {}
  ELSE {ic.projects[i].modulesDir : i \in 1..Len(ic.projects)}

\* line 280: the directories the tasks purge
TaskPurgeTargets(o, ic) ==
  {ic.projects[i].modulesDir : i \in FailingProjects(o, ic)}

\* mutant: the registries mismatch purges the first project only
M_RegistriesPurgeFirstOnly(projects) == {projects[1].modulesDir}

\* line 286: the directories the registries mismatch purges
RegistriesPurgeTargets(projects) ==
  {projects[i].modulesDir : i \in 1..Len(projects)}

\* line 261: projects.map starts every task; each runs to its first await
StartProjectTasks ==
  /\ pc = "tasks"
  /\ LET failing == FailingProjects(opts, importersContext)
     IN IF failing # {} /\ TaskCatchRethrows(opts)
        THEN LET first == CHOOSE i \in failing : \A k \in failing : i <= k
             IN /\ Throw(TaskError(opts, importersContext.modules,
                                   importersContext.projects[first]))
                /\ UNCHANGED <<job, nPurges>>
        ELSE /\ StartPurges(TaskPurgeTargets(opts, importersContext))
             /\ pc' = "await_tasks"
             /\ UNCHANGED error
  /\ UNCHANGED <<opts, builder, modulesYaml, incompatible, fs, storeDirExists,
                 alreadyPurged, importersContext, purged, retPurged, ctx, calls,
                 nReads, nValidations, fs0>>

\* line 261: Promise.all of the tasks is fulfilled
TasksSettled ==
  /\ pc = "await_tasks"
  /\ AllFulfilled
  /\ ClearJobs
  /\ pc' = "registries"
  /\ UNCHANGED <<opts, builder, modulesYaml, incompatible, fs, storeDirExists,
                 alreadyPurged, importersContext, purged, retPurged, error, ctx, calls,
                 nReads, nValidations, nPurges, fs0>>

\* lines 284-290
ValidateRegistries ==
  /\ pc = "registries"
  /\ IF RegistriesMismatch(opts, importersContext.modules)
     THEN IF RegistriesRepaired(opts)
          THEN /\ StartPurges(RegistriesPurgeTargets(importersContext.projects))
               /\ pc' = "await_registries"
               /\ UNCHANGED error
          ELSE /\ Throw("REGISTRIES_MISMATCH")
               /\ UNCHANGED <<job, nPurges>>
     ELSE /\ pc' = "fallback"
          /\ UNCHANGED <<job, nPurges, error>>
  /\ UNCHANGED <<opts, builder, modulesYaml, incompatible, fs, storeDirExists,
                 alreadyPurged, importersContext, purged, retPurged, ctx, calls,
                 nReads, nValidations, fs0>>

\* lines 286-287: every project is purged, return { purged: true }
RegistriesPurged ==
  /\ pc = "await_registries"
  /\ AllFulfilled
  /\ ClearJobs
  /\ retPurged' = TRUE
  /\ pc' = "validated"
  /\ UNCHANGED <<opts, builder, modulesYaml, incompatible, fs, storeDirExists,
                 alreadyPurged, importersContext, purged, error, ctx, calls, nReads,
                 nValidations, nPurges, fs0>>

\* lines 291-297
ValidateFallback ==
  /\ pc = "fallback"
  /\ IF FallbackNeeded(purged, importersContext.projects)
     THEN /\ StartPurges({Join(opts.lockfileDir, <<ModulesDirName(opts)>>)})
          /\ pc' = "await_fallback"
          /\ UNCHANGED retPurged
     ELSE /\ retPurged' = purged
          /\ pc' = "validated"
          /\ UNCHANGED <<job, nPurges>>
  /\ UNCHANGED <<opts, builder, modulesYaml, incompatible, fs, storeDirExists,
                 alreadyPurged, importersContext, purged, error, ctx, calls, nReads,
                 nValidations, fs0>>

\* lines 292-297: the fallback purge is done, return { purged }
FallbackPurged ==
  /\ pc = "await_fallback"
  /\ AllFulfilled
  /\ ClearJobs
  /\ retPurged' = purged
  /\ pc' = "validated"
  /\ UNCHANGED <<opts, builder, modulesYaml, incompatible, fs, storeDirExists,
                 alreadyPurged, importersContext, purged, error, ctx, calls, nReads,
                 nValidations, nPurges, fs0>>

(***************************************************************************)
(* getContext and getContextForSingleImporter                              *)
(***************************************************************************)
NoImportersContext ==
  [ modules |-> NullModules, currentHoistPattern |-> Undef,
    currentPublicHoistPattern |-> Undef, include |-> IncludeAll,
    registries |-> Undef, rootModulesDir |-> <<>>, projects |-> <<>> ]

NoContext ==
  [ returned |-> FALSE, modulesFile |-> NullModules, hoistPattern |-> Undef,
    publicHoistPattern |-> Undef, include |-> IncludeAll, registries |-> "",
    extraBinPaths |-> <<>>, extraNodePaths |-> <<>>, hoistedModulesDir |-> <<>>,
    virtualStoreDir |-> <<>>, rootModulesDir |-> <<>> ]

\* mutant: validateModules is called whether or not a descriptor was read
M_ValidatesAlways(b, modules, purgedBefore) == TRUE

\* lines 109 and 436: validateModules is called
Validates(b, modules, purgedBefore) ==
  IF b = "multi" THEN modules.present ELSE modules.present /\ ~purgedBefore

\* lines 106-110 and 417-437: readProjectsContext, then validateModules if called for
ReadProjects ==
  /\ pc = "read"
  /\ importersContext' = ReadProjectsContext(fs, modulesYaml, opts)
  /\ nReads' = nReads + 1
  /\ IF Validates(builder, importersContext'.modules, alreadyPurged)
     THEN pc' = "publicHoist" /\ nValidations' = nValidations + 1
     ELSE pc' = "mkdir" /\ UNCHANGED nValidations
  /\ UNCHANGED <<opts, builder, modulesYaml, incompatible, fs, storeDirExists,
                 alreadyPurged, purged, retPurged, job, error, ctx, calls, nPurges, fs0>>

\* mutant: the builder goes on with the project state read before the purge
M_AfterValidateNoReread ==
  /\ pc = "validated"
  /\ pc' = "mkdir"
  /\ UNCHANGED <<opts, builder, modulesYaml, incompatible, fs, storeDirExists,
                 alreadyPurged, importersContext, purged, retPurged, job, error, ctx,
                 calls, nReads, nValidations, nPurges, fs0>>

\* mutant: after a purge getContext starts over, validation included
M_AfterValidateRestarts ==
  /\ pc = "validated"
  /\ IF retPurged
     THEN IF builder = "multi"
          THEN pc' = "read" /\ UNCHANGED alreadyPurged
          ELSE pc' = "read" /\ alreadyPurged' = TRUE
     ELSE pc' = "mkdir" /\ UNCHANGED alreadyPurged
  /\ UNCHANGED <<opts, builder, modulesYaml, incompatible, fs, storeDirExists,
                 importersContext, purged, retPurged, job, error, ctx, calls, nReads,
                 nValidations, nPurges, fs0>>

\* lines 128-134 and 454-457: validateModules returned
AfterValidate ==
  /\ pc = "validated"
  /\ IF retPurged
     THEN IF builder = "multi"
          THEN pc' = "reread" /\ UNCHANGED alreadyPurged
          ELSE pc' = "read" /\ alreadyPurged' = TRUE
     ELSE pc' = "mkdir" /\ UNCHANGED alreadyPurged
  /\ UNCHANGED <<opts, builder, modulesYaml, incompatible, fs, storeDirExists,
                 importersContext, purged, retPurged, job, error, ctx, calls, nReads,
                 nValidations, nPurges, fs0>>

\* lines 129-132
ReRead ==
  /\ pc = "reread"
  /\ importersContext' = ReadProjectsContext(fs, modulesYaml, opts)
  /\ nReads' = nReads + 1
  /\ pc' = "mkdir"
  /\ UNCHANGED <<opts, builder, modulesYaml, incompatible, fs, storeDirExists,
                 alreadyPurged, purged, retPurged, job, error, ctx, calls,
                 nValidations, nPurges, fs0>>

\* lines 136 and 459: fs.mkdir(opts.storeDir, { recursive: true })
Mkdir ==
  /\ pc = "mkdir"
  /\ storeDirExists' = TRUE
  /\ pc' = "assemble"
  /\ UNCHANGED <<opts, builder, modulesYaml, incompatible, fs, alreadyPurged,
                 importersContext, purged, retPurged, job, error, ctx, calls, nReads,
                 nValidations, nPurges, fs0>>

\* opts.hoistPattern?.length
NonEmpty(pattern) == pattern.def /\ Len(pattern.val) > 0

\* mutant: the linker mode is not looked at
M_ExtraNodePathsAnyLinker(extendNodePath, nodeLinker, hoistPattern, virtualStoreDir) ==
  IF Coalesce(extendNodePath, Some(TRUE)).val /\ NonEmpty(hoistPattern)
  THEN << Join(virtualStoreDir, <<NODE_MODULES>>) >>
  ELSE << >>

\* lines 519-531
getExtraNodePaths(extendNodePath, nodeLinker, hoistPattern, virtualStoreDir) ==
  IF Coalesce(extendNodePath, Some(TRUE)).val /\ nodeLinker = "isolated"
     /\ NonEmpty(hoistPattern)
  THEN << Join(virtualStoreDir, <<NODE_MODULES>>) >>
  ELSE << >>

\* lines 151-157 and 460-466
ExtraBinPaths(o, hoistedModulesDir) ==
  IF NonEmpty(o.hoistPattern)
  THEN << Join(hoistedModulesDir, <<BIN>>) >> \o o.extraBinPaths
  ELSE o.extraBinPaths

\* lines 151-193 and 460-505
BuildContext(b, o, ic) ==
  LET virtualStoreDir == VirtualStoreDir(b, o)
      hoistedModulesDir == Join(virtualStoreDir, <<NODE_MODULES>>)
      hoistPattern == Coalesce(ic.currentHoistPattern, o.hoistPattern)
  IN [ returned |-> TRUE,
       modulesFile |-> ic.modules,
       hoistPattern |-> hoistPattern,
       publicHoistPattern |-> Coalesce(ic.currentPublicHoistPattern, o.publicHoistPattern),
       include |-> Coalesce(o.include, Some(ic.include)).val,
       registries |-> Coalesce(ic.registries, Some(o.registries)).val,
       extraBinPaths |-> ExtraBinPaths(o, hoistedModulesDir),
       extraNodePaths |-> getExtraNodePaths(o.extendNodePath, o.nodeLinker,
                                           hoistPattern, virtualStoreDir),
       hoistedModulesDir |-> hoistedModulesDir,
       virtualStoreDir |-> virtualStoreDir,
       rootModulesDir |-> ic.rootModulesDir ]

\* lines 151-199 and 460-516: the context is assembled and returned
Assemble ==
  /\ pc = "assemble"
  /\ ctx' = BuildContext(builder, opts, importersContext)
  /\ pc' = "done"
  /\ UNCHANGED <<opts, builder, modulesYaml, incompatible, fs, storeDirExists,
                 alreadyPurged, importersContext, purged, retPurged, job, error, calls,
                 nReads, nValidations, nPurges, fs0>>

\* the caller builds the context again, with the same options, after a context
\* was returned
NextCall ==
  /\ pc = "done"
  /\ calls < MaxCalls
  /\ \A d \in Dirs : ~InFlight(d)
  /\ calls' = calls + 1
  /\ pc' = "read"
  /\ alreadyPurged' = FALSE
  /\ importersContext' = NoImportersContext
  /\ purged' = FALSE
  /\ retPurged' = FALSE
  /\ ClearJobs
  /\ error' = "none"
  /\ ctx' = NoContext
  /\ nReads' = 0
  /\ nValidations' = 0
  /\ nPurges' = [d \in Dirs |-> 0]
  /\ fs0' = fs
  /\ UNCHANGED <<opts, builder, modulesYaml, incompatible, fs, storeDirExists>>

(***************************************************************************)
(* The specification                                                       *)
(***************************************************************************)
RootModulesDir == Join(LockfileDir, <<NODE_MODULES>>)

\* the directories as a previous install with the modules directory name of o, or
\* none, left them
InitialFs(o, hasDescriptor, missing) ==
  [d \in Dirs |->
     IF d \in missing \/ d[Len(d)] # ModulesDirName(o) THEN AbsentDir
     ELSE [exists |-> TRUE,
           entries |-> IF d = RootModulesDirOf(o) /\ hasDescriptor
                       THEN EntryNames ELSE EntryNames \ {MODULES_YAML}]]

\* the state when the first call starts, for options drawn from optionSet
InitFrom(optionSet) ==
  /\ opts \in optionSet
  /\ builder \in {"multi", "single"}
  /\ builder = "single" => Len(opts.allProjects) = 1
  /\ modulesYaml \in Descriptors
  /\ \E hasDescriptor \in BOOLEAN,
        missing \in SUBSET {Join(ProjectA, <<ModulesDirName(opts)>>)} :
       /\ fs = InitialFs(opts, hasDescriptor, missing)
       /\ opts.virtualStoreDir.def => missing = {}
       /\ ~hasDescriptor => modulesYaml.registries = Undef
  /\ incompatible \in SUBSET {Join(opts.allProjects[i], <<ModulesDirName(opts)>>) :
                                i \in 1..Len(opts.allProjects)}
  /\ Cardinality(incompatible) <= MaxIncompatible
  /\ ReadModulesManifest(fs, modulesYaml, RootModulesDirOf(opts)) = NullModules
       => incompatible = {}
  /\ storeDirExists = FALSE
  /\ pc = "read"
  /\ alreadyPurged = FALSE
  /\ importersContext = NoImportersContext
  /\ purged = FALSE
  /\ retPurged = FALSE
  /\ job = [d \in Dirs |-> NoJob]
  /\ error = "none"
  /\ ctx = NoContext
  /\ calls = 1
  /\ nReads = 0
  /\ nValidations = 0
  /\ nPurges = [d \in Dirs |-> 0]
  /\ fs0 = fs

Init == InitFrom(Options)

Next ==
  \/ ReadProjects
  \/ ValidatePublicHoist
  \/ PublicHoistPurged
  \/ ValidateHoist
  \/ HoistPurged
  \/ StartProjectTasks
  \/ TasksSettled
  \/ ValidateRegistries
  \/ RegistriesPurged
  \/ ValidateFallback
  \/ FallbackPurged
  \/ \E d \in Dirs : JobReaddir(d)
  \/ \E d \in Dirs : JobRimraf(d)
  \/ PurgeRejected
  \/ AfterValidate
  \/ ReRead
  \/ Mkdir
  \/ Assemble
  \/ NextCall

Spec == Init /\ [][Next]_vars

(***************************************************************************)
(* The calls that do not authorize a purge. Without forceNewModules no     *)
(* purge is started, so the steps of the purges and the re-read that       *)
(* follows a purge are left out of the next-state relation.                *)
(***************************************************************************)
InitConfig == InitFrom(ConfigOptions)

NextConfig ==
  \/ ReadProjects
  \/ ValidatePublicHoist
  \/ ValidateHoist
  \/ StartProjectTasks
  \/ TasksSettled
  \/ ValidateRegistries
  \/ ValidateFallback
  \/ AfterValidate
  \/ Mkdir
  \/ Assemble
  \/ NextCall

SpecConfig == InitConfig /\ [][NextConfig]_vars

(***************************************************************************)
(* The builders with the failures of their own awaited calls               *)
(***************************************************************************)
\* lines 106, 129 and 417: readProjectsContext rejects
ReadProjectsFails ==
  /\ pc \in {"read", "reread"}
  /\ nReads' = nReads + 1
  /\ Throw("READ_PROJECTS_FAILED")
  /\ UNCHANGED <<opts, builder, modulesYaml, incompatible, fs, storeDirExists,
                 alreadyPurged, importersContext, purged, retPurged, job, ctx, calls,
                 nValidations, nPurges, fs0>>

\* lines 136 and 459: fs.mkdir(opts.storeDir, { recursive: true }) rejects
MkdirFails ==
  /\ pc = "mkdir"
  /\ Throw("MKDIR_FAILED")
  /\ UNCHANGED <<opts, builder, modulesYaml, incompatible, fs, storeDirExists,
                 alreadyPurged, importersContext, purged, retPurged, job, ctx, calls,
                 nReads, nValidations, nPurges, fs0>>

\* lines 147 and 477: the caller configured opts.readPackageHook, and it rejects
ReadPackageHookFails ==
  /\ pc = "assemble"
  /\ Throw("READ_PACKAGE_HOOK_FAILED")
  /\ UNCHANGED <<opts, builder, modulesYaml, incompatible, fs, storeDirExists,
                 alreadyPurged, importersContext, purged, retPurged, job, ctx, calls,
                 nReads, nValidations, nPurges, fs0>>

\* lines 179 and 491: readLockfiles rejects
ReadLockfilesFails ==
  /\ pc = "assemble"
  /\ Throw("READ_LOCKFILES_FAILED")
  /\ UNCHANGED <<opts, builder, modulesYaml, incompatible, fs, storeDirExists,
                 alreadyPurged, importersContext, purged, retPurged, job, ctx, calls,
                 nReads, nValidations, nPurges, fs0>>

NextIO ==
  \/ Next
  \/ ReadProjectsFails
  \/ MkdirFails
  \/ ReadPackageHookFails
  \/ ReadLockfilesFails

SpecIO == Init /\ [][NextIO]_vars

(***************************************************************************)
(* Properties                                                              *)
(***************************************************************************)
\* the previous install's descriptor was on disk when the current call started
DescriptorAtStart ==
  ReadModulesManifest(fs0, modulesYaml, RootModulesDirOf(opts)).present

\* the rootDir of the lockfile root is in opts.allProjects
RootListed == \E i \in 1..Len(opts.allProjects) : opts.allProjects[i] = opts.lockfileDir

\* the recorded hoist pattern is not the requested one
HoistMismatch == modulesYaml.hoistPattern # OrUndefined(opts.hoistPattern)

\* the recorded public hoist pattern is not the requested one
PublicHoistMismatch == modulesYaml.publicHoistPattern # OrUndefined(opts.publicHoistPattern)

\* the recorded registries are not the requested ones
RegistriesDiffer ==
  modulesYaml.registries.def /\ modulesYaml.registries.val # opts.registries

\* no entry of any modules directory was removed by the current call
NothingRemoved == fs = fs0

NoPurgeCalled == \A d \in Dirs : nPurges[d] = 0 /\ job[d] = NoJob

\* C1: without forceNewModules no purge is ever started and no entry of any modules
\* directory is removed; validateModules returns purged = false or throws.
C1_NoPurgeWithoutForce ==
  ~opts.forceNewModules => NothingRemoved /\ NoPurgeCalled /\ ~purged /\ ~retPurged

\* C1 witness: validateModules found a project incompatible and threw, without force
C1_Witness ==
  /\ ~opts.forceNewModules
  /\ pc = "failed"
  /\ error = "COMPAT"
  /\ nValidations = 1

\* C2 as stated: the hoist patterns differ and no force flag is set, so the call fails
\* with HOIST_PATTERN_DIFF and nothing on disk changes.
C2_Original ==
  ( /\ DescriptorAtStart
    /\ HoistMismatch
    /\ ~opts.forceNewModules /\ ~opts.forceHoistPattern /\ ~opts.forcePublicHoistPattern
    /\ pc \in {"done", "failed"} )
  => error = "HOIST_PATTERN_DIFF" /\ NothingRemoved /\ ~storeDirExists

\* C2 amended: with forceHoistPattern set, the root project listed, forceNewModules
\* unset and the public hoist check passing, a differing hoist pattern makes the call
\* fail with HOIST_PATTERN_DIFF; no entry is removed, the store directory is not created.
C2_HoistDiffFails ==
  ( /\ DescriptorAtStart
    /\ HoistMismatch
    /\ opts.forceHoistPattern
    /\ RootListed
    /\ ~opts.forceNewModules
    /\ ~(opts.forcePublicHoistPattern /\ PublicHoistMismatch) )
  => /\ pc \notin {"tasks", "await_tasks", "registries", "validated", "mkdir",
                   "assemble", "done"}
     /\ pc = "failed" => error = "HOIST_PATTERN_DIFF"
     /\ NothingRemoved
     /\ NoPurgeCalled
     /\ ~storeDirExists

\* C2 witness: the call failed on the hoist pattern
C2_Witness ==
  /\ DescriptorAtStart
  /\ HoistMismatch
  /\ opts.forceHoistPattern
  /\ ~opts.forceNewModules
  /\ pc = "failed"
  /\ error = "HOIST_PATTERN_DIFF"

\* the root project's task catches no error and the registries match
RootOtherwiseValid == RootModulesDir \notin incompatible /\ ~RegistriesDiffer

\* the hoist pattern is checked, differs, and the difference is repaired
HoistRepairCase ==
  /\ HoistMismatch
  /\ opts.forceNewModules
  /\ opts.forceHoistPattern
  /\ RootListed

\* C3 as stated: the hoist patterns differ and the force flag is set, so the root
\* project's modules directory is purged exactly once in the call, whatever other
\* mismatches exist.
C3_Original ==
  (DescriptorAtStart /\ HoistRepairCase /\ pc = "done")
  => nPurges[RootModulesDir] = 1

\* C3 amended: if moreover the root project passes the compatibility check and the
\* registries match, the root project's modules directory is purged exactly once in
\* the call, and the next call validates nothing, purges nothing and does not fail.
C3_PurgedOnceThenClean ==
  (HoistRepairCase /\ RootOtherwiseValid)
  => /\ nPurges[RootModulesDir] <= 1
     /\ (DescriptorAtStart /\ pc \in {"validated", "reread", "mkdir", "assemble", "done"})
          => nPurges[RootModulesDir] = 1
     /\ calls > 1 => /\ nValidations = 0
                     /\ NoPurgeCalled
                     /\ NothingRemoved
                     /\ pc # "failed"

\* C3 witness: the second call returned a context after the first one purged the root
C3_Witness ==
  /\ HoistRepairCase
  /\ RootOtherwiseValid
  /\ calls = 2
  /\ pc = "done"
  /\ ctx.returned
  /\ PKG \notin fs[RootModulesDir].entries
  /\ MODULES_YAML \notin fs[RootModulesDir].entries

\* the modules directories of the listed projects
ListedModulesDirs ==
  {Join(opts.allProjects[i], <<ModulesDirName(opts)>>) : i \in 1..Len(opts.allProjects)}

\* the rule of the purge: a hidden entry that is neither .bin, nor .modules.yaml, nor
\* the virtual store survives
Survives(dir, item) ==
  /\ Head(item) = "."
  /\ item \notin {BIN, MODULES_YAML}
  /\ Join(dir, <<item>>) # VirtualStoreDir(builder, opts)

\* no manageable entry is left in dir
Cleared(dir) == \A item \in fs[dir].entries : Survives(dir, item)

\* the public hoist check finds a difference
PublicHoistFires == opts.forcePublicHoistPattern /\ PublicHoistMismatch

\* C4 as stated: the registries differ and the force flag is set, so validation returns
\* purged = true with every listed project purged, whatever the other settings.
C4_Original ==
  (DescriptorAtStart /\ RegistriesDiffer /\ opts.forceNewModules /\ pc = "validated")
  => retPurged /\ \A d \in ListedModulesDirs : nPurges[d] >= 1

\* C4 amended: if moreover the public hoist check finds no difference, validation
\* fails only with the I/O error of a purge, and when it returns it reports
\* purged = true with the modules directory of every listed project purged.
C4_RegistriesPurgeAll ==
  (DescriptorAtStart /\ RegistriesDiffer /\ opts.forceNewModules /\ ~PublicHoistFires)
  => /\ pc = "failed" => error = "EIO"
     /\ pc \notin {"fallback", "await_fallback"}
     /\ pc \in {"validated", "reread", "mkdir", "assemble", "done"}
          => /\ retPurged
             /\ \A d \in ListedModulesDirs : nPurges[d] >= 1 /\ Cleared(d)

\* C4 witness: three projects were purged for the registries, with a hoist pattern
\* difference repaired before
C4_Witness ==
  /\ DescriptorAtStart /\ RegistriesDiffer /\ opts.forceNewModules /\ ~PublicHoistFires
  /\ HoistRepairCase
  /\ Len(opts.allProjects) = 3
  /\ pc = "validated"
  /\ \A d \in ListedModulesDirs : PKG \in fs0[d].entries /\ PKG \notin fs[d].entries

\* the only mismatch is that checkCompatibility throws for the project of dir
OnlyIncompatible(dir) ==
  /\ DescriptorAtStart
  /\ opts.forceNewModules
  /\ incompatible = {dir}
  /\ dir \in ListedModulesDirs
  /\ ~PublicHoistFires
  /\ ~(opts.forceHoistPattern /\ RootListed /\ HoistMismatch)
  /\ ~RegistriesDiffer
  /\ \A i \in 1..Len(opts.allProjects) :
       ~IncludedDepsConflict(opts, modulesYaml,
                             [rootDir |-> opts.allProjects[i]])

PurgesFulfilled(dir) ==
  nPurges[dir] > 0 /\ job[dir].st \in {"none", "ok"}

\* C6: once the purges of a directory are fulfilled, its entries are exactly those it
\* had that start with '.', are not .bin, not .modules.yaml and not the virtual store.
C6_SurvivorsOfPurge ==
  \A d \in Dirs :
    PurgesFulfilled(d)
    => fs[d].entries = {item \in fs0[d].entries : Survives(d, item)}

\* C6 witness: the root directory was purged, lost .bin, the descriptor, the virtual
\* store and a package, and kept a hidden file
C6_Witness ==
  /\ PurgesFulfilled(RootModulesDir)
  /\ fs0[RootModulesDir].entries = EntryNames
  /\ VirtualStoreDir(builder, opts) = Join(RootModulesDir, <<PNPM>>)
  /\ fs[RootModulesDir].entries = {NPMRC}

\* C7: a directory that a purge was started on holds a manageable entry only while the
\* call awaits its purges or after the call failed with a reported error.
C7_AllOrNothing ==
  \A d \in Dirs :
    (nPurges[d] > 0 /\ ~Cleared(d))
    => /\ pc \in {"await_publicHoist", "await_hoist", "await_tasks",
                  "await_registries", "await_fallback", "failed"}
       /\ job[d].st \in {"readdir", "rimraf", "err"}
       /\ pc = "failed" => error # "none"

\* C7 witness: a purge removed an entry, failed on another, and the call failed
C7_Witness ==
  \E d \in Dirs :
    /\ job[d].st = "err"
    /\ fs[d] # fs0[d]
    /\ ~Cleared(d)
    /\ pc = "failed"
    /\ error = "EIO"

\* the context retains the descriptor of the previous install
DescriptorRetained == pc = "done" /\ ctx.modulesFile.present /\ ~retPurged

\* a listed project lies below the lockfile root
SubProjectListed ==
  \E i \in 1..Len(opts.allProjects) : opts.allProjects[i] # opts.lockfileDir

HoistEqual == ctx.modulesFile.hoistPattern = OrUndefined(opts.hoistPattern)
PublicHoistEqual ==
  ctx.modulesFile.publicHoistPattern = OrUndefined(opts.publicHoistPattern)
IncludedEqual ==
  (opts.include.def /\ ctx.modulesFile.included.def)
  => \A f \in DEPENDENCIES_FIELDS : opts.include.val[f] = ctx.modulesFile.included.val[f]
RegistriesEqual ==
  ctx.modulesFile.registries.def => ctx.modulesFile.registries.val = opts.registries

\* C8 as stated: a retained descriptor equals the requested configuration in every
\* comparable field, except the fields the caller gave a force flag for.
C8_Original ==
  DescriptorRetained
  => /\ (~opts.forceHoistPattern /\ ~opts.forceNewModules) => HoistEqual
     /\ (~opts.forcePublicHoistPattern /\ ~opts.forceNewModules) => PublicHoistEqual
     /\ ~opts.forceNewModules => IncludedEqual
     /\ ~opts.forceNewModules => RegistriesEqual

\* C8 amended: a retained descriptor equals the requested configuration in every field
\* the validator compares: the hoist pattern when forceHoistPattern is set and the root
\* project is listed, the public hoist pattern when forcePublicHoistPattern is set, the
\* included categories when a project below the lockfile root is listed, the
\* registries when the descriptor records them; and no listed project is incompatible.
C8_RetainedDescriptorChecked ==
  DescriptorRetained
  => /\ (opts.forceHoistPattern /\ RootListed) => HoistEqual
     /\ opts.forcePublicHoistPattern => PublicHoistEqual
     /\ SubProjectListed => IncludedEqual
     /\ RegistriesEqual
     /\ incompatible = {}

\* C8 witness: a descriptor is retained after every comparison was made
C8_Witness ==
  /\ DescriptorRetained
  /\ opts.forceHoistPattern /\ RootListed
  /\ opts.forcePublicHoistPattern
  /\ SubProjectListed /\ opts.include.def
  /\ ctx.modulesFile.registries.def
  /\ nValidations = 1

\* validateModules reported a purge and the builder went on
WentOnAfterPurge == retPurged /\ pc \in {"mkdir", "assemble", "done"}

\* C9 as stated: after a reported purge the project state the builder uses has no
\* descriptor.
C9_Original ==
  WentOnAfterPurge
  => /\ ~importersContext.modules.present
     /\ pc = "done" => ~ctx.modulesFile.present

\* C9 amended: after a reported purge the builder uses the project state it read again
\* after the purge; that state has no descriptor exactly when the modules directory of
\* the lockfile root was among the purged directories, and it keeps the descriptor
\* when only other directories were purged.
C9_RereadAfterPurge ==
  WentOnAfterPurge
  => /\ nReads = 2
     /\ importersContext = ReadProjectsContext(fs, modulesYaml, opts)
     /\ importersContext.modules.present <=> nPurges[RootModulesDir] = 0
     /\ pc = "done" => ctx.modulesFile = importersContext.modules

\* C9 witness: the root was purged and the returned context has no descriptor
C9_Witness ==
  /\ WentOnAfterPurge
  /\ pc = "done"
  /\ nPurges[RootModulesDir] = 1
  /\ ~ctx.modulesFile.present
  /\ DescriptorAtStart

\* C10: in one call validateModules runs at most once and project state is read at
\* most twice, the second time only after a reported purge; after the second read, and
\* in getContextForSingleImporter called with alreadyPurged, nothing is validated or
\* purged any more.
C10_AtMostOneRetry ==
  /\ nValidations <= 1
  /\ nReads <= 2
  /\ nReads = 2 => /\ retPurged
                   /\ pc \in {"mkdir", "assemble", "done"}
                   /\ \A d \in Dirs : ~InFlight(d)
  /\ alreadyPurged => /\ builder = "single"
                      /\ retPurged
                      /\ pc \in {"read", "mkdir", "assemble", "done"}

\* C10 witness: getContextForSingleImporter returned from its recursive call
C10_Witness ==
  /\ builder = "single"
  /\ alreadyPurged
  /\ nReads = 2
  /\ nValidations = 1
  /\ pc = "done"

\* some purge was started by the current call
SomePurgeCalled == \E d \in Dirs : nPurges[d] > 0

\* C11: when validation returns after a purge and no root project is listed, the
\* modules directory of the lockfile root has been purged too, whichever check caused
\* the purge.
C11_FallbackWhicheverCategory ==
  (pc = "validated" /\ SomePurgeCalled /\ ~RootListed)
  => nPurges[RootModulesDirOf(opts)] >= 1 /\ Cleared(RootModulesDirOf(opts))

\* the call failed, if at all, because a read of project state or of the lockfiles did
ReadsSucceeded == error \notin {"READ_PROJECTS_FAILED", "READ_LOCKFILES_FAILED"}

\* C12 as stated: with no descriptor when the call starts, validateModules is not
\* called, nothing is purged, and the call does not fail unless a read fails.
C12_Original ==
  ~DescriptorAtStart
  => /\ nValidations = 0
     /\ NoPurgeCalled /\ NothingRemoved
     /\ ReadsSucceeded => pc # "failed"

\* C12 amended: with no descriptor when the call starts, both builders go from the
\* read straight to the store directory and the context: validateModules is not called,
\* nothing is purged, and the call fails only if a read, the creation of the store
\* directory or the read-package hook fails.
C12_NoDescriptorNoValidation ==
  ~DescriptorAtStart
  => /\ nValidations = 0
     /\ NoPurgeCalled /\ NothingRemoved
     /\ nReads <= 1
     /\ pc \in {"read", "mkdir", "assemble", "done", "failed"}
     /\ pc = "failed" => error \in {"READ_PROJECTS_FAILED", "MKDIR_FAILED",
                                     "READ_PACKAGE_HOOK_FAILED", "READ_LOCKFILES_FAILED"}
     /\ pc = "done" => ctx.returned /\ ~ctx.modulesFile.present /\ storeDirExists

\* C12 witness: getContextForSingleImporter returned a context for a project that was
\* never installed
C12_Witness ==
  /\ ~DescriptorAtStart
  /\ calls = 1
  /\ builder = "single"
  /\ pc = "done"
  /\ ctx.returned
  /\ nReads = 1

\* validateModules returned and the builder went on, or is about to
ValidationReturned ==
  \/ pc \in {"validated", "reread", "mkdir", "assemble", "done"}
  \/ pc = "read" /\ alreadyPurged

\* the positions of validateModules after the public hoist check
LaterChecks ==
  {"hoist", "await_hoist", "tasks", "await_tasks", "registries", "await_registries",
   "fallback", "await_fallback"}

\* C13 as stated: the recorded public hoist pattern differs from the requested one;
\* without force the call fails with PUBLIC_HOIST_PATTERN_DIFF and purges nothing; with
\* force and the root project listed only the root project's directory is purged,
\* purged = true is returned and no later check runs.
C13_Original ==
  (DescriptorAtStart /\ PublicHoistMismatch)
  => /\ ~opts.forceNewModules
          => /\ ~ValidationReturned
             /\ pc = "failed" => error = "PUBLIC_HOIST_PATTERN_DIFF"
             /\ NothingRemoved /\ NoPurgeCalled
     /\ (opts.forceNewModules /\ RootListed)
          => /\ pc \notin LaterChecks
             /\ ValidationReturned => retPurged /\ nPurges[RootModulesDir] = 1

\* C13 amended: the same, when forcePublicHoistPattern is set. Without force the
\* call fails with PUBLIC_HOIST_PATTERN_DIFF before any other check and nothing is
\* purged. With force and the root project listed no later check is reached, no
\* directory but the root project's is purged, the call fails only with the I/O error
\* of that purge, and validation returns purged = true with the root project's
\* directory purged once.
C13_PublicHoistDiff ==
  (DescriptorAtStart /\ PublicHoistFires)
  => /\ pc \notin LaterChecks
     /\ ~opts.forceNewModules
          => /\ ~ValidationReturned
             /\ pc = "failed" => error = "PUBLIC_HOIST_PATTERN_DIFF"
             /\ NothingRemoved /\ NoPurgeCalled
     /\ (opts.forceNewModules /\ RootListed)
          => /\ \A d \in Dirs \ {RootModulesDir} :
                  nPurges[d] = 0 /\ job[d] = NoJob /\ fs[d] = fs0[d]
             /\ nPurges[RootModulesDir] <= 1
             /\ pc = "failed" => error = "EIO"
             /\ ValidationReturned
                  => retPurged /\ nPurges[RootModulesDir] = 1 /\ Cleared(RootModulesDir)

\* C13 witness: the root project was purged for the public hoist pattern and a context
\* returned, although project a is incompatible, the hoist pattern differs, the
\* included categories differ and the registries differ
C13_Witness ==
  /\ DescriptorAtStart /\ PublicHoistFires
  /\ opts.forceNewModules /\ RootListed
  /\ Len(opts.allProjects) = 3
  /\ incompatible = {Join(ProjectA, <<NODE_MODULES>>)}
  /\ opts.forceHoistPattern /\ HoistMismatch
  /\ opts.include = Some(IncludeProd)
  /\ RegistriesDiffer
  /\ pc = "done"
  /\ nPurges[RootModulesDir] = 1
  /\ PKG \in fs[Join(ProjectA, <<NODE_MODULES>>)].entries

\* C13 second witness state: the call failed on the public hoist pattern without force
C13_WitnessFails ==
  /\ DescriptorAtStart /\ PublicHoistFires
  /\ ~opts.forceNewModules
  /\ pc = "failed"
  /\ error = "PUBLIC_HOIST_PATTERN_DIFF"

\* C14: a purge of a modules directory that does not exist never rejects and removes
\* nothing: it waits for readdir or is fulfilled; if the call fails, the purge of
\* another directory failed; and when validation returns it reports purged = true.
C14_AbsentDirPurgeSucceeds ==
  \A d \in Dirs :
    (~fs0[d].exists /\ nPurges[d] > 0)
    => /\ job[d].st \in {"readdir", "ok", "none"}
       /\ fs[d] = fs0[d]
       /\ pc = "failed" => error = "EIO" /\ \E e \in Dirs \ {d} : job[e].st = "err"
       /\ ValidationReturned => retPurged

\* C14 witness: the only purge of the call was that of the absent directory of the
\* incompatible project a; validation reported it and a context was returned
C14_Witness ==
  /\ OnlyIncompatible(Join(ProjectA, <<NODE_MODULES>>))
  /\ RootListed
  /\ ~fs0[Join(ProjectA, <<NODE_MODULES>>)].exists
  /\ nPurges[Join(ProjectA, <<NODE_MODULES>>)] = 1
  /\ retPurged
  /\ nReads = 2
  /\ pc = "done"
  /\ NothingRemoved

\* a purge of the current call was rejected with an error that is not swallowed
SomePurgeFailed == \E d \in Dirs : job[d].st = "err"

AwaitingPurges ==
  {"await_publicHoist", "await_hoist", "await_tasks", "await_registries",
   "await_fallback"}

\* C15: once a purge has failed with an error other than ENOENT, force flag or not,
\* validateModules never returns: the call has failed with that error or is about to,
\* no context is returned, project state is not read again and the call does not create
\* the store directory.
C15_PurgeErrorPropagates ==
  SomePurgeFailed
  => /\ opts.forceNewModules
     /\ pc \in AwaitingPurges \cup {"failed"}
     /\ pc \in AwaitingPurges => ENABLED PurgeRejected
     /\ pc = "failed" => error = "EIO"
     /\ ~ctx.returned
     /\ ~retPurged
     /\ nReads = 1
     /\ calls = 1 => ~storeDirExists

\* C15 witness: the registries differ, the purge of one project was fulfilled, that
\* of another failed, and the first call failed
C15_Witness ==
  /\ opts.forceNewModules
  /\ RegistriesDiffer
  /\ \E d, e \in Dirs : job[d].st = "err" /\ job[e].st = "ok"
  /\ pc = "failed"
  /\ error = "EIO"
  /\ calls = 1
  /\ ~storeDirExists
  /\ nReads = 1

\* the public hoist check, the hoist check and every project's task pass
EarlierChecksPass ==
  /\ ~PublicHoistFires
  /\ ~(opts.forceHoistPattern /\ RootListed /\ HoistMismatch)
  /\ incompatible = {}
  /\ \A i \in 1..Len(opts.allProjects) :
       ~IncludedDepsConflict(opts, modulesYaml, [rootDir |-> opts.allProjects[i]])

\* C16: the recorded registries differ from the requested ones, force is not set and
\* the earlier checks pass: validateModules never returns, the call fails with
\* REGISTRIES_MISMATCH only, and no purge is started and no entry removed; this for
\* opts.global set or not.
C16_RegistriesMismatchFails ==
  (DescriptorAtStart /\ RegistriesDiffer /\ ~opts.forceNewModules /\ EarlierChecksPass)
  => /\ pc \in {"read", "publicHoist", "hoist", "tasks", "await_tasks", "registries",
                 "failed"}
     /\ pc = "failed" => error = "REGISTRIES_MISMATCH"
     /\ NothingRemoved /\ NoPurgeCalled
     /\ ~ctx.returned

\* C16 witness: getContext was called with opts.global, failed on the registries, and
\* its message names the global install command
C16_Witness ==
  /\ DescriptorAtStart /\ RegistriesDiffer /\ EarlierChecksPass
  /\ opts.global = Some(TRUE)
  /\ builder = "multi"
  /\ pc = "failed"
  /\ error = "REGISTRIES_MISMATCH"
  /\ InstallCommand(builder, opts) = "pnpm install -g"
  /\ NothingRemoved

\* C16 second witness state: the same failure without opts.global
C16_WitnessNotGlobal ==
  /\ DescriptorAtStart /\ RegistriesDiffer /\ EarlierChecksPass
  /\ opts.global = Undef
  /\ pc = "failed"
  /\ error = "REGISTRIES_MISMATCH"
  /\ InstallCommand(builder, opts) = "pnpm install"

\* the recorded included categories differ from the requested ones in some category
IncludedDiffer ==
  /\ opts.include.def
  /\ modulesYaml.included.def
  /\ \E f \in DEPENDENCIES_FIELDS : opts.include.val[f] # modulesYaml.included.val[f]

\* the modules directories of the listed projects below the lockfile root
SubProjectDirs ==
  {Join(opts.allProjects[i], <<ModulesDirName(opts)>>) :
     i \in {k \in 1..Len(opts.allProjects) : opts.allProjects[k] # opts.lockfileDir}}

\* the public hoist check and the hoist check pass and no project is incompatible
NoOtherTaskError ==
  /\ ~PublicHoistFires
  /\ ~(opts.forceHoistPattern /\ RootListed /\ HoistMismatch)
  /\ incompatible = {}

C17_WitnessRootOnly ==
  /\ DescriptorAtStart /\ IncludedDiffer
  /\ opts.allProjects = <<LockfileDir>>
  /\ ~opts.forceNewModules
  /\ pc = "done"
  /\ ctx.modulesFile.present

\* C17 third witness state: the call failed on the included categories
C17_WitnessFails ==
  /\ DescriptorAtStart /\ IncludedDiffer
  /\ SubProjectListed /\ NoOtherTaskError /\ ~opts.forceNewModules
  /\ pc = "failed"
  /\ error = "INCLUDED_DEPS_CONFLICT"

\* virtualStoreDir/node_modules/.bin of the returned context
HoistedBin == Join(Join(ctx.virtualStoreDir, <<NODE_MODULES>>), <<BIN>>)

\* C18: the returned context's extraBinPaths are the caller's extra bin paths, with
\* virtualStoreDir/node_modules/.bin put first exactly when the context's hoist
\* pattern (the recorded one if any, else the requested one) is non-empty.
C18_BinPathIffEffectiveHoist ==
  pc = "done"
  => ctx.extraBinPaths = IF NonEmpty(ctx.hoistPattern)
                         THEN <<HoistedBin>> \o opts.extraBinPaths
                         ELSE opts.extraBinPaths

\* extendNodePath is true, or unset
ExtendFlag == opts.extendNodePath \in {Undef, Some(TRUE)}

\* C19: the returned extraNodePaths is the one-element list of
\* virtualStoreDir/node_modules if extendNodePath is true or unset, the linker is
\* "isolated" and the hoist pattern given to getExtraNodePaths (the context's) is
\* non-empty; in every other case it is the empty list.
C19_ExtraNodePaths ==
  pc = "done"
  => /\ (ExtendFlag /\ opts.nodeLinker = "isolated" /\ NonEmpty(ctx.hoistPattern))
          => ctx.extraNodePaths = << ctx.virtualStoreDir \o <<NODE_MODULES>> >>
     /\ ~(ExtendFlag /\ opts.nodeLinker = "isolated" /\ NonEmpty(ctx.hoistPattern))
          => ctx.extraNodePaths = << >>

\* C19 witness: extendNodePath unset, the isolated linker and the pattern '*' give the
\* one path
C19_Witness ==
  /\ pc = "done"
  /\ opts.extendNodePath = Undef
  /\ opts.nodeLinker = "isolated"
  /\ ctx.hoistPattern = Star
  /\ Len(ctx.extraNodePaths) = 1
  /\ ctx.extraNodePaths[1] = ctx.hoistedModulesDir

\* C19 other witness states: each condition alone empties the list
C19_WitnessNotExtended ==
  /\ pc = "done"
  /\ opts.extendNodePath = Some(FALSE)
  /\ opts.nodeLinker = "isolated"
  /\ ctx.hoistPattern = Star
  /\ ctx.extraNodePaths = << >>

C19_WitnessHoistedLinker ==
  /\ pc = "done"
  /\ opts.extendNodePath = Some(TRUE)
  /\ opts.nodeLinker = "hoisted"
  /\ ctx.hoistPattern = Star
  /\ ctx.extraNodePaths = << >>

C19_WitnessEmptyPattern ==
  /\ pc = "done"
  /\ opts.extendNodePath = Some(TRUE)
  /\ opts.nodeLinker = "isolated"
  /\ ctx.hoistPattern = Empty
  /\ ctx.extraNodePaths = << >>

\* the virtual store directory the claim describes: the configured override made
\* absolute from lockfileDir, or else lockfileDir/<modulesDir>/.pnpm
ExpectedVirtualStoreDir ==
  IF opts.virtualStoreDir.def
  THEN PathAbsolute(opts.virtualStoreDir.val, opts.lockfileDir)
  ELSE Join(opts.lockfileDir, <<ModulesDirName(opts), PNPM>>)

\* C20: in both builders the virtualStoreDir of the returned context is the absolute
\* path made from lockfileDir and the configured override, or else the default inside
\* the configured modules directory; so both builders compute the same one.
C20_SameVirtualStoreDir ==
  pc = "done"
  => /\ ctx.virtualStoreDir = ExpectedVirtualStoreDir
     /\ ctx.virtualStoreDir = VirtualStoreDir("multi", opts)
     /\ ctx.virtualStoreDir = VirtualStoreDir("single", opts)
     /\ SubSeq(ctx.virtualStoreDir, 1, Len(opts.lockfileDir)) = opts.lockfileDir
          \/ opts.virtualStoreDir.def

\* the builder is about to read project state again, or has done so
RereadStartedOrDue ==
  \/ pc = "reread"
  \/ pc = "read" /\ alreadyPurged
  \/ nReads = 2

\* C21: when the builder is about to read project state again, and from then on, no
\* purge is in flight or left to start, every directory a purge was started on is
\* wholly purged, and after the read the project state in use, and the context built
\* from it, are those of the directories as they now are.
C21_RereadAfterAllPurgesSettled ==
  RereadStartedOrDue
  => /\ retPurged
     /\ \A d \in Dirs : job[d] = NoJob
     /\ \A d \in Dirs : ~ENABLED JobReaddir(d) /\ ~ENABLED JobRimraf(d)
     /\ \A d \in Dirs : nPurges[d] > 0 => Cleared(d)
     /\ pc \in {"reread", "read", "mkdir", "assemble", "done"}
     /\ nReads = 2
          => /\ importersContext = ReadProjectsContext(fs, modulesYaml, opts)
             /\ pc = "done" => ctx.modulesFile =
                                 ReadModulesManifest(fs, modulesYaml, RootModulesDirOf(opts))

\* C21 witness: getContext is about to read again after the concurrent purges of
\* three projects, started for the registries, have all removed their packages
C21_Witness ==
  /\ pc = "reread"
  /\ builder = "multi"
  /\ RegistriesDiffer
  /\ Len(opts.allProjects) = 3
  /\ \A d \in ListedModulesDirs :
       nPurges[d] >= 1 /\ PKG \in fs0[d].entries /\ PKG \notin fs[d].entries

\* the directories a purge is in flight on
InFlightDirs == {d \in Dirs : InFlight(d)}

\* this step starts a purge on d
PurgeStarts(d) == nPurges'[d] > nPurges[d]

\* in this state validateModules runs and is not awaiting a purge
BetweenPurges ==
  pc \in {"publicHoist", "hoist", "tasks", "registries", "fallback", "validated"}

\* the state part of C22: the projects validateModules is given have pairwise distinct
\* modules directories; no purge is in flight when validateModules is not awaiting
\* one; and the purge for the public hoist pattern, for the hoist pattern and the
\* fallback purge are each the only one in flight, on one directory.
C22_State ==
  /\ \A i, k \in 1..Len(importersContext.projects) :
       i # k => importersContext.projects[i].modulesDir
                  # importersContext.projects[k].modulesDir
  /\ BetweenPurges => InFlightDirs = {}
  /\ pc \in {"await_publicHoist", "await_hoist", "await_fallback"}
       => Cardinality(InFlightDirs) <= 1
  /\ pc = "await_tasks" => InFlightDirs \subseteq TaskPurgeTargets(opts, importersContext)
  /\ pc = "await_registries"
       => InFlightDirs \subseteq RegistriesPurgeTargets(importersContext.projects)

\* the step part of C22: a step that starts a purge is taken when no purge is in
\* flight on any directory, and starts one purge per directory.
C22_Step ==
  \A d \in Dirs :
    PurgeStarts(d)
    => /\ InFlightDirs = {}
       /\ nPurges'[d] = nPurges[d] + 1
       /\ job'[d] = StartedJob

\* C22: within one validateModules run no two purges of one directory are in flight
\* together: the hoist pattern purge is over before the projects' tasks start, the
\* tasks purge pairwise distinct directories, and the registries purge and the
\* fallback purge start after every task has settled.
C22_NoTwoPurgesOfOneDir == [](C22_State) /\ [][C22_Step]_vars

\* C22 witness: the purges of two projects' tasks are in flight together, after the
\* hoist pattern purge of the root project's directory, which is purged again by its
\* own task
C22_Witness ==
  /\ pc = "await_tasks"
  /\ Cardinality(InFlightDirs) = 2
  /\ RootModulesDir \in InFlightDirs
  /\ nPurges[RootModulesDir] = 2

\* the state part of C23: every modules directory exists if and only if it did when
\* the call started and holds no entry it did not hold then; a directory no purge
\* was started on is as it was.
C23_State ==
  \A d \in Dirs :
    /\ fs[d].exists = fs0[d].exists
    /\ fs[d].entries \subseteq fs0[d].entries
    /\ nPurges[d] = 0 => fs[d] = fs0[d]

\* the step part of C23: a step that changes a directory is the rimraf of a purge of
\* that directory; it removes the one direct entry the purge has reached, which is
\* not a kept one, leaves the directory in place, and changes no other directory and
\* not the store directory.
C23_Step ==
  \A d \in Dirs :
    fs'[d] # fs[d]
    => /\ job[d].st = "rimraf"
       /\ nPurges[d] > 0
       /\ fs'[d].exists = fs[d].exists
       /\ fs'[d].entries = fs[d].entries \ {Head(job[d].items)}
       /\ ~Survives(d, Head(job[d].items))
       /\ \A e \in Dirs \ {d} : fs'[e] = fs[e]
       /\ storeDirExists' = storeDirExists

\* C23: a purge of a modules directory removes direct entries of that directory only:
\* the directory itself stays and no other directory changes.
C23_PurgeFrame == [](C23_State) /\ [][C23_Step]_vars

\* C23 witness: the purge of project a's directory is fulfilled; the directory is
\* still there without its package, and the listed root project's and project b's
\* directories are as they were
C23_Witness ==
  /\ Len(opts.allProjects) = 3
  /\ PurgesFulfilled(Join(ProjectA, <<NODE_MODULES>>))
  /\ fs0[Join(ProjectA, <<NODE_MODULES>>)].exists
  /\ fs[Join(ProjectA, <<NODE_MODULES>>)].exists
  /\ PKG \notin fs[Join(ProjectA, <<NODE_MODULES>>)].entries
  /\ NPMRC \in fs[Join(ProjectA, <<NODE_MODULES>>)].entries
  /\ fs[RootModulesDir] = fs0[RootModulesDir]
  /\ fs[Join(ProjectB, <<NODE_MODULES>>)] = fs0[Join(ProjectB, <<NODE_MODULES>>)]
  /\ pc = "done"

\* a check fails that purges the root project's own directory
RootProjectFails ==
  \/ PublicHoistFires
  \/ opts.forceHoistPattern /\ HoistMismatch
  \/ RootModulesDirOf(opts) \in incompatible
  \/ RegistriesDiffer

\* C24: a directory that a purge was started on is the modules directory of a listed
\* project, or else the lockfile root's modules directory, purged once as the
\* fallback, with no root project listed and after the purge of a listed project.
\* When the root project is listed, its directory is purged only for a check that
\* fails for the root project itself, never as a fallback.
C24_PurgeTargets ==
  \A d \in Dirs :
    (nPurges[d] > 0 \/ job[d] # NoJob \/ fs[d] # fs0[d])
    => /\ opts.forceNewModules
       /\ d \in ListedModulesDirs \cup {RootModulesDirOf(opts)}
       /\ d \notin ListedModulesDirs
            => /\ ~RootListed
               /\ nPurges[d] = 1
               /\ \E e \in ListedModulesDirs : nPurges[e] > 0
               /\ pc \in {"await_fallback", "validated", "reread", "read", "mkdir",
                           "assemble", "done", "failed"}
       /\ (RootListed /\ d = RootModulesDirOf(opts)) => RootProjectFails

\* C24 witness: of projects a and b only a was incompatible; a's directory and, as
\* the fallback, the lockfile root's were purged, b's was not
C24_Witness ==
  /\ opts.allProjects = <<ProjectA, ProjectB>>
  /\ OnlyIncompatible(Join(ProjectA, <<NODE_MODULES>>))
  /\ nPurges[Join(ProjectA, <<NODE_MODULES>>)] = 1
  /\ nPurges[RootModulesDir] = 1
  /\ nPurges[Join(ProjectB, <<NODE_MODULES>>)] = 0
  /\ PKG \notin fs[RootModulesDir].entries
  /\ pc = "done"

====
